---- MODULE Spec2Model ----
(***************************************************************************)
(* Manga Nexus graph exploration engine: dataset load (GraphLoader), the   *)
(* Visibility Resolver (InteractiveGraph visibility effect), selection     *)
(* (Home.handleToggleNode / handleClear), the discovery entry point and    *)
(* the pointer gesture controller (InteractiveGraph handler effect).       *)
(*                                                                         *)
(* Units: scores are whole score points (LOAD_MIN_SCORE = 1.0 is 1);       *)
(* edge strengths and the minStrength slider are in tenths (0.4 is 4).     *)
(* Optional values (null refs) are sequences of length 0 or 1.             *)
(***************************************************************************)
EXTENDS Integers, Sequences, FiniteSets, TLC

VARIABLES
  data,               \* GraphView state `data`: <<>> (null) or <<dataset>>
  allGenres,          \* GraphView state `allGenres` (as a set)
  nodeList,           \* GraphView state `nodeList`: sequence of loaded RawNodes
  graphNodes,         \* sigma graph: node id -> attributes (function)
  graphEdges,         \* sigma graph: set of [source, target, weight]
  nodeSize,           \* sigma graph: node id -> [importance, size] (fractions)
  pos,                \* sigma graph: node id -> <<x, y>> attribute
  fixed,              \* sigma graph: ids carrying the 'fixed' attribute
  frameId,            \* layout loop: <<>> or <<id of the requested animation frame>>
  phase,              \* "init" | "fetched" | "loaded" | "crashed" (tree unmounted by
                      \* an error) | "empty" (fetch failed) | "unmounted"
  thrown,             \* an uncaught error was raised by an effect or handler
  selectedNodes,      \* Home state: insertion-ordered Set<string>
  lastSelectedNode,   \* Home state: <<>> or <<id>>
  minStrength, minScore, selectedGenres, isAwardWinningOnly,  \* Filter State
  visibleNodeIds,     \* GraphView state set by onUpdateVisibleNodes
  reducerEnv,         \* <<>> or <<values the sigma node/edge reducers closed over>>
  effectPending,      \* "none" | "timer": a commit whose passive effects have not run
  isDiscoveryOpen,    \* Home state
  displayedNodes,     \* DiscoveryModal state (ids)
  timers,             \* pending setTimeout callbacks of handleDiscoveryComplete
  dragInfoRef,        \* <<>> or <<[nodeId, startX, startY, isDragging]>>
  listeners,          \* document mousemove/mouseup listeners attached
  buttonDown,         \* the physical primary button is held
  hoveredNode,        \* InteractiveGraph state: <<>> or <<id>>
  tooltip,            \* GraphView state: <<>> or <<id of the node shown>>
  cursor,             \* sigma container style.cursor
  pointer,            \* clientX / clientY of the latest pointer event
  gestureLog,         \* <<>> or <<record of the current press on a node>> (auxiliary)
  focusLog,           \* handleFocus calls of the latest step (auxiliary)
  fitLog,             \* <<>> or <<record of the handleFit call of the latest step>> (auxiliary)
  hist                \* history of the latest toggles (auxiliary)

loadVars    == <<data, allGenres, nodeList, graphNodes, graphEdges, nodeSize, phase>>
layoutVars  == <<pos, fixed, frameId>>
selVars     == <<selectedNodes, lastSelectedNode>>
filterVars  == <<minStrength, minScore, selectedGenres, isAwardWinningOnly>>
discVars    == <<isDiscoveryOpen, displayedNodes, timers>>
gestureVars == <<dragInfoRef, listeners, buttonDown, hoveredNode, tooltip, cursor,
                 pointer, gestureLog>>
visVars     == <<visibleNodeIds, reducerEnv, effectPending>>
vars == <<loadVars, layoutVars, thrown, selVars, filterVars, visVars,
          discVars, gestureVars, focusLog, fitLog, hist>>

----------------------------------------------------------------------------
(* Settings *)
LOAD_MIN_SCORE == 1
INITIAL_MIN_STRENGTH == 0
INITIAL_DISPLAY_SCORE == 6
GRID_SIZE == 25
DISCOVERY_MIN_SCORE == 8
DRAG_THRESHOLD == 5
AWARD == "Award Winning"

(* Bounds of the model *)
MaxEdges == 3       \* declared edges in a dataset of the load specification
MaxSelected == 3    \* selected ids at a time
MaxPending == 1     \* discovery timeouts in flight

Range(s) == {s[i] : i \in DOMAIN s}

EmptyFn == [x \in {} |-> x]

SetMin(S) == CHOOSE v \in S : \A w \in S : v <= w
SetMax(S) == CHOOSE v \in S : \A w \in S : v >= w

----------------------------------------------------------------------------
(* Datasets.  A node entry may lack `score` or `genres` (a malformed       *)
(* entry of graph-data.json).                                              *)
RawNode(id, score, genres) ==
  [id |-> id, score |-> score, scoreDefined |-> TRUE,
   genres |-> genres, genresDefined |-> TRUE]

NoGenres(n) == [n EXCEPT !.genres = <<>>, !.genresDefined = FALSE]
NoScore(n)  == [n EXCEPT !.score = 0, !.scoreDefined = FALSE]

RawEdge(s, t, w) == [source |-> s, target |-> t, strength |-> w]

NodeX == RawNode("X", 9, <<"Action">>)
NodeY == RawNode("Y", 5, <<"Drama", AWARD>>)
NodeZ == RawNode("Z", 7, <<"Action", "Drama">>)
NodeW == RawNode("W", 8, <<AWARD>>)

(* All sequences over S of length at most n *)
RECURSIVE SeqsUpTo(_, _)
SeqsUpTo(S, n) ==
  IF n = 0 THEN {<<>>}
  ELSE LET shorter == SeqsUpTo(S, n - 1)
       IN shorter \cup {Append(s, x) : s \in {t \in shorter : Len(t) = n - 1}, x \in S}

(* The sub-sequences of s, in the order of s *)
RECURSIVE SubSeqs(_)
SubSeqs(s) ==
  IF s = <<>> THEN {<<>>}
  ELSE LET rest == SubSeqs(Tail(s))
       IN rest \cup {<<Head(s)>> \o r : r \in rest}

(* Load specification: node lists with a low score, a duplicate id, a      *)
(* missing score and a missing genres; edge lists of every order and       *)
(* orientation over a pool with a dangling endpoint.                       *)
LoadNodeLists ==
  { <<NodeX, NodeY, NodeZ, NodeW>>,
    <<NodeX, NodeY, RawNode("Z", 0, <<"Action">>)>>,
    <<NodeX, NodeY, RawNode("X", 3, <<"Horror">>), NodeZ>>,
    <<NodeX, NoScore(NodeY), NodeZ>>,
    <<NodeX, NodeY, NoGenres(NodeZ)>>,
    <<NodeX, NodeY, NoGenres(RawNode("Z", 0, <<>>))>> }

LoadEdgePool ==
  { RawEdge("X", "Y", 4), RawEdge("Y", "X", 1), RawEdge("X", "Y", 1),
    RawEdge("X", "Z", 1), RawEdge("Z", "Q", 4) }

LoadDatasets ==
  { [nodes |-> ns, edges |-> es] :
      ns \in LoadNodeLists, es \in SeqsUpTo(LoadEdgePool, MaxEdges) }

----------------------------------------------------------------------------
(* GraphLoader *)

(* graphology Graph.hasEdge(source, target) on the default (mixed) graph   *)
(* built by addEdge: a directed edge source -> target.                     *)
hasEdge(edges, s, t) == \E e \in edges : e.source = s /\ e.target = t

(* graphology Graph.degree: in-degree plus out-degree *)
degree(edges, n) ==
  Cardinality({e \in edges : e.source = n}) + Cardinality({e \in edges : e.target = n})

(* data.nodes.forEach: skip below the load floor, skip a known id, throw   *)
(* on node.genres[0] of a missing genres, else addNode and push.           *)
RECURSIVE InsertNodes(_, _, _, _)
InsertNodes(entries, i, nodes, loaded) ==
  IF i > Len(entries) THEN [nodes |-> nodes, loaded |-> loaded, thrown |-> FALSE]
  ELSE LET node == entries[i] IN
    IF node.scoreDefined /\ node.score < LOAD_MIN_SCORE
      THEN InsertNodes(entries, i + 1, nodes, loaded)
    ELSE IF node.id \in DOMAIN nodes
      THEN InsertNodes(entries, i + 1, nodes, loaded)
    ELSE IF ~node.genresDefined
      THEN [nodes |-> nodes, loaded |-> loaded, thrown |-> TRUE]
    ELSE InsertNodes(entries, i + 1, nodes @@ (node.id :> node), Append(loaded, node))

RECURSIVE InsertEdges(_, _, _, _)
InsertEdges(decls, i, nodes, edges) ==
  IF i > Len(decls) THEN edges
  ELSE LET edge == decls[i] IN
    IF /\ edge.source \in DOMAIN nodes
       /\ edge.target \in DOMAIN nodes
       /\ ~hasEdge(edges, edge.source, edge.target)
      THEN InsertEdges(decls, i + 1, nodes,
             edges \cup {[source |-> edge.source, target |-> edge.target,
                          weight |-> edge.strength]})
      ELSE InsertEdges(decls, i + 1, nodes, edges)

(* Node size: 3 + 12 * importance *)
MIN_NODE_SIZE == 3
NODE_SIZE_RANGE == 12

(* Variant of DegreeSpan without the `|| 1` fallback *)
DegreeSpanNoFallback(minDegree, maxDegree) == maxDegree - minDegree

(* (maxDegree - minDegree || 1) *)
DegreeSpan(minDegree, maxDegree) ==
  IF maxDegree - minDegree = 0 THEN 1 ELSE maxDegree - minDegree

(* The attributes `importance` (ratio) and `size` of every node, as        *)
(* fractions <<numerator, denominator>>; x / 0 is kept as <<x, 0>>.        *)
SizeNodes(nodes, edges) ==
  IF DOMAIN nodes = {} THEN EmptyFn
  ELSE LET degrees == {degree(edges, n) : n \in DOMAIN nodes}
           minDegree == SetMin(degrees)
           maxDegree == SetMax(degrees)
       IN [n \in DOMAIN nodes |->
             LET ratio == <<degree(edges, n) - minDegree, DegreeSpan(minDegree, maxDegree)>>
             IN [importance |-> ratio,
                 size |-> <<MIN_NODE_SIZE * ratio[2] + ratio[1] * NODE_SIZE_RANGE,
                            ratio[2]>>]]

(* Variant of DropIsolated that keeps the nodes without an edge *)
DropIsolatedKeepsAll(nodes, edges) == nodes

(* graph.forEachNode: dropNode when degree is 0 *)
DropIsolated(nodes, edges) ==
  [n \in {m \in DOMAIN nodes : degree(edges, m) # 0} |-> nodes[n]]

----------------------------------------------------------------------------
(* Visibility Resolver: the visibility effect of InteractiveGraph *)

FilterState ==
  [minStrength |-> minStrength, minScore |-> minScore,
   selectedGenres |-> selectedGenres, isAwardWinningOnly |-> isAwardWinningOnly]

(* attrs.score || 0 *)
ScoreOrZero(attrs) == IF attrs.scoreDefined THEN attrs.score ELSE 0

(* Variant of isNodeValid that applies the genre filter in award-only mode *)
(* as well                                                                 *)
isNodeValidGenreUnderAward(nodes, F, nodeId) ==
  /\ nodeId \in DOMAIN nodes
  /\ LET attrs == nodes[nodeId] IN
       /\ ~(ScoreOrZero(attrs) < F.minScore)
       /\ F.isAwardWinningOnly => (attrs.genresDefined /\ AWARD \in Range(attrs.genres))
       /\ (F.selectedGenres # {}) =>
            (attrs.genresDefined /\ \E g \in Range(attrs.genres) : g \in F.selectedGenres)

(* Variant of isNodeValid that never tests the award tag *)
isNodeValidNoAward(nodes, F, nodeId) ==
  /\ nodeId \in DOMAIN nodes
  /\ LET attrs == nodes[nodeId] IN
       /\ ~(ScoreOrZero(attrs) < F.minScore)
       /\ (F.selectedGenres # {}) =>
            (attrs.genresDefined /\ \E g \in Range(attrs.genres) : g \in F.selectedGenres)

isNodeValid(nodes, F, nodeId) ==
  /\ nodeId \in DOMAIN nodes
  /\ LET attrs == nodes[nodeId] IN
       /\ ~(ScoreOrZero(attrs) < F.minScore)
       /\ IF F.isAwardWinningOnly
            THEN attrs.genresDefined /\ AWARD \in Range(attrs.genres)
            ELSE (F.selectedGenres # {}) =>
                   (attrs.genresDefined /\
                    \E g \in Range(attrs.genres) : g \in F.selectedGenres)

(* Variant of validEdges that drops the strength threshold *)
validEdgesNoThreshold(edges, F) == edges

validEdges(edges, F) == {e \in edges : e.weight >= F.minStrength}

(* Variant of nodesWithValidEdges that takes the ends of every edge *)
nodesWithValidEdgesAnyStrength(edges, F) ==
  {e.source : e \in edges} \cup {e.target : e \in edges}

nodesWithValidEdges(edges, F) ==
  {e.source : e \in validEdges(edges, F)} \cup {e.target : e \in validEdges(edges, F)}

(* Variant of QualifyingNeighbors that omits the validity check of the     *)
(* neighbor                                                                *)
QualifyingNeighborsAnyNode(nodes, edges, F, id) ==
  { (IF e.source = id THEN e.target ELSE e.source) :
      e \in { d \in validEdges(edges, F) : d.source = id \/ d.target = id } }

(* graph.forEachEdge(id, ...): the edges id is an end of; the neighbor is  *)
(* the other end; kept when the edge is valid and the neighbor is valid.   *)
QualifyingNeighbors(nodes, edges, F, id) ==
  { (IF e.source = id THEN e.target ELSE e.source) :
      e \in { d \in validEdges(edges, F) :
                /\ (d.source = id \/ d.target = id)
                /\ isNodeValid(nodes, F,
                               IF d.source = id THEN d.target ELSE d.source) } }

(* Variant of IntersectFrom that accumulates the neighbors of the later    *)
(* selected ids instead of intersecting with them                          *)
RECURSIVE IntersectFromUnion(_, _, _, _, _, _)
IntersectFromUnion(nodes, edges, F, sel, i, candidates) ==
  IF i > Len(sel) THEN candidates
  ELSE IF sel[i] \in DOMAIN nodes
    THEN IntersectFromUnion(nodes, edges, F, sel, i + 1,
                            candidates \cup QualifyingNeighbors(nodes, edges, F, sel[i]))
    ELSE IntersectFromUnion(nodes, edges, F, sel, i + 1, candidates)

(* for (let i = 1; i < selectedArray.length; i++): intersect when the id   *)
(* is a node of the graph, skip it otherwise.                              *)
RECURSIVE IntersectFrom(_, _, _, _, _, _)
IntersectFrom(nodes, edges, F, sel, i, candidates) ==
  IF i > Len(sel) THEN candidates
  ELSE IF sel[i] \in DOMAIN nodes
    THEN IntersectFrom(nodes, edges, F, sel, i + 1,
                       candidates \cap QualifyingNeighbors(nodes, edges, F, sel[i]))
    ELSE IntersectFrom(nodes, edges, F, sel, i + 1, candidates)

(* Variant of ActiveNodes that keeps every qualifying neighbor of the      *)
(* first selected id, without intersecting with the later ones            *)
ActiveNodesFirstOnly(nodes, edges, F, sel) ==
  IF Len(sel) = 0
    THEN {n \in DOMAIN nodes :
            n \in nodesWithValidEdges(edges, F) /\ isNodeValid(nodes, F, n)}
  ELSE IF sel[1] \in DOMAIN nodes
    THEN Range(sel) \cup QualifyingNeighbors(nodes, edges, F, sel[1])
  ELSE {}

ActiveNodes(nodes, edges, F, sel) ==
  IF Len(sel) = 0
    THEN {n \in DOMAIN nodes :
            n \in nodesWithValidEdges(edges, F) /\ isNodeValid(nodes, F, n)}
  ELSE IF sel[1] \in DOMAIN nodes
    THEN Range(sel) \cup
         IntersectFrom(nodes, edges, F, sel, 2,
                       QualifyingNeighbors(nodes, edges, F, sel[1]))
  ELSE {}

(* The effect runs in the commit of every change of its dependencies,      *)
(* while InteractiveGraph is mounted (data is set and the tree is alive).  *)
(* The values the reducers installed by sigma.setSetting close over *)
ReducerEnv(nodes, edges, F, sel) ==
  [validEdges |-> validEdges(edges, F),
   activeNodes |-> ActiveNodes(nodes, edges, F, sel),
   selectedNodes |-> Range(sel)]

VisibilityEffect ==
  /\ visibleNodeIds' =
       IF phase' = "loaded"
         THEN ActiveNodes(graphNodes', graphEdges', FilterState', selectedNodes')
         ELSE visibleNodeIds
  /\ reducerEnv' =
       IF phase' = "loaded"
         THEN <<ReducerEnv(graphNodes', graphEdges', FilterState', selectedNodes')>>
         ELSE reducerEnv
  /\ effectPending' = "none"

(* Variant of nodeReducer that hides no node *)
nodeReducerShowsAll(env, node) ==
  IF node \in env.selectedNodes THEN [hidden |-> FALSE, style |-> "selected"]
  ELSE [hidden |-> FALSE, style |-> "plain"]

(* nodeReducer(node): hidden unless active; a selected node is bordered *)
nodeReducer(env, node) ==
  IF node \notin env.activeNodes THEN [hidden |-> TRUE, style |-> "none"]
  ELSE IF node \in env.selectedNodes THEN [hidden |-> FALSE, style |-> "selected"]
  ELSE [hidden |-> FALSE, style |-> "plain"]

(* Variant of edgeReducer that highlights only an edge between two         *)
(* selected nodes                                                          *)
edgeReducerBothSelected(env, edge) ==
  IF edge \notin env.validEdges THEN [hidden |-> TRUE, style |-> "none"]
  ELSE IF edge.source \in env.activeNodes /\ edge.target \in env.activeNodes
    THEN IF edge.source \in env.selectedNodes /\ edge.target \in env.selectedNodes
           THEN [hidden |-> FALSE, style |-> "highlighted"]
           ELSE [hidden |-> FALSE, style |-> "dimmed"]
  ELSE [hidden |-> TRUE, style |-> "none"]

(* edgeReducer(edge): hidden unless valid with both ends active; the color *)
(* '#64748b' / size 2 is "highlighted", '#e2e8f0' / size 0.5 is "dimmed".  *)
edgeReducer(env, edge) ==
  IF edge \notin env.validEdges THEN [hidden |-> TRUE, style |-> "none"]
  ELSE IF edge.source \in env.activeNodes /\ edge.target \in env.activeNodes
    THEN IF edge.source \in env.selectedNodes \/ edge.target \in env.selectedNodes
           THEN [hidden |-> FALSE, style |-> "highlighted"]
           ELSE [hidden |-> FALSE, style |-> "dimmed"]
  ELSE [hidden |-> TRUE, style |-> "none"]

----------------------------------------------------------------------------
(* Selection: Home.handleToggleNode, Home.handleClear *)

Without(sel, id) == SelectSeq(sel, LAMBDA x : x # id)

(* Variant of ToggleSel without the delete branch *)
ToggleSelAddOnly(sel, id) == IF id \in Range(sel) THEN sel ELSE Append(sel, id)

(* setSelectedNodes(prev => ...): delete when present, else add at the end *)
ToggleSel(sel, id) == IF id \in Range(sel) THEN Without(sel, id) ELSE Append(sel, id)

(* The history keeps the latest toggle, and the toggle-on before it when   *)
(* the latest one undoes it.                                               *)
HistAfterToggle(id, via) ==
  LET on == id \notin Range(selectedNodes)
      entry == IF on THEN [on |-> TRUE, id |-> id, sel |-> selectedNodes,
                           vis |-> visibleNodeIds, via |-> via]
               ELSE [on |-> FALSE, id |-> id, sel |-> <<>>, vis |-> {}, via |-> via]
  IN IF ~on /\ hist # <<>> /\ hist[Len(hist)].on /\ hist[Len(hist)].id = id
       THEN <<hist[Len(hist)], entry>>
       ELSE <<entry>>

(* closureLast is lastSelectedNode of the render that created the handler; *)
(* via names the caller in the history.                                    *)
handleToggleNode(id, closureLast, via) ==
  /\ selectedNodes' = ToggleSel(selectedNodes, id)
  /\ lastSelectedNode' =
       IF id \in Range(selectedNodes)
         THEN (IF closureLast = <<id>> THEN <<>> ELSE lastSelectedNode)
         ELSE <<id>>
  /\ hist' = HistAfterToggle(id, via)

(* GraphView.handleGraphToggle: only an id found in nodeList is toggled *)
handleGraphToggle(id, closureNodeList, closureLast, via) ==
  IF \E k \in DOMAIN closureNodeList : closureNodeList[k].id = id
    THEN handleToggleNode(id, closureLast, via)
    ELSE UNCHANGED <<selVars, hist>>

(* InteractiveGraph.handleFocus: the camera animates to a node of the graph *)
handleFocus(nodeId) ==
  /\ focusLog' = IF nodeId \in DOMAIN graphNodes THEN <<nodeId>> ELSE <<>>
  /\ fitLog' = <<>>

NoFocus == focusLog' = <<>> /\ fitLog' = <<>>

handleClear ==
  /\ selectedNodes' = <<>>
  /\ lastSelectedNode' = <<>>
  /\ hist' = <<>>

NodeListIds == {nodeList[k].id : k \in DOMAIN nodeList}

Alive == phase \in {"init", "empty", "loaded"}

Loaded == phase = "loaded"

----------------------------------------------------------------------------
(* Datasets of the visibility specification: four nodes, every subset of   *)
(* an edge pool with a reversed duplicate (X-Y declared both ways with     *)
(* different strengths).  W has no edge: it is loaded into nodeList and    *)
(* dropped from the graph as isolated.                                     *)
VisEdgePool ==
  << RawEdge("X", "Y", 4), RawEdge("X", "Z", 1), RawEdge("Y", "X", 1),
     RawEdge("Z", "Y", 4) >>

VisDatasets ==
  { [nodes |-> <<NodeX, NodeY, NodeZ, NodeW>>, edges |-> es] : es \in SubSeqs(VisEdgePool) }

(* Values the sliders are moved to (tenths for strength, points for score) *)
StrengthSteps == {0, 2}
ScoreSteps == {1, 6}

(* Placements the layout can give a node; the visibility and load          *)
(* specifications never read positions and place every node at the origin. *)
Origin == <<0, 0>>

----------------------------------------------------------------------------
Init ==
  /\ data = <<>>
  /\ allGenres = {}
  /\ nodeList = <<>>
  /\ nodeSize = EmptyFn
  /\ graphNodes = EmptyFn
  /\ graphEdges = {}
  /\ pos = EmptyFn
  /\ fixed = {}
  /\ frameId = <<>>
  /\ phase = "init"
  /\ thrown = FALSE
  /\ selectedNodes = <<>>
  /\ lastSelectedNode = <<>>
  /\ minStrength = INITIAL_MIN_STRENGTH
  /\ minScore = INITIAL_DISPLAY_SCORE
  /\ selectedGenres = {}
  /\ isAwardWinningOnly = FALSE
  /\ visibleNodeIds = {}
  /\ reducerEnv = <<>>
  /\ effectPending = "none"
  /\ isDiscoveryOpen = FALSE
  /\ displayedNodes = {}
  /\ timers = <<>>
  /\ dragInfoRef = <<>>
  /\ listeners = FALSE
  /\ buttonDown = FALSE
  /\ hoveredNode = <<>>
  /\ tooltip = <<>>
  /\ cursor = "default"
  /\ pointer = <<0, 0>>
  /\ gestureLog = <<>>
  /\ focusLog = <<>>
  /\ fitLog = <<>>
  /\ hist = <<>>

(* GraphView.fetchData: setData(json), then the genre vocabulary; a node   *)
(* without genres throws inside the try block after setData, and the       *)
(* catch only logs: allGenres keeps its value.                             *)
FetchData(Datasets) ==
  /\ NoFocus
  /\ phase = "init"
  /\ \E ds \in Datasets :
       /\ data' = <<ds>>
       /\ allGenres' =
            IF \A k \in DOMAIN ds.nodes : ds.nodes[k].genresDefined
              THEN UNION {Range(ds.nodes[k].genres) : k \in DOMAIN ds.nodes} \ {AWARD}
              ELSE allGenres
  /\ phase' = "fetched"
  /\ UNCHANGED <<nodeList, graphNodes, graphEdges, nodeSize, layoutVars, thrown, selVars,
                 filterVars, visVars, discVars, gestureVars, hist>>

(* The ways the dataset fetch fails: fetch() rejects, the response is not  *)
(* OK, res.json() rejects.                                                 *)
FetchFailures == {"network", "status", "parse"}

(* Variant of FetchDataFails without the try / catch: the rejection        *)
(* propagates                                                              *)
FetchDataFailsUncaught ==
  /\ NoFocus
  /\ phase = "init"
  /\ \E kind \in FetchFailures :
       /\ phase' = "empty"
       /\ thrown' = (kind # "status")
  /\ UNCHANGED <<data, allGenres, nodeList, graphNodes, graphEdges, nodeSize, layoutVars,
                 selVars, filterVars, visVars, discVars, gestureVars, hist>>

(* GraphView.fetchData failing: `if (!res.ok) return`, or a rejection      *)
(* caught and logged; setData is not reached, data stays null.             *)
FetchDataFails ==
  /\ NoFocus
  /\ phase = "init"
  /\ \E kind \in FetchFailures :
       /\ phase' = "empty"
       /\ thrown' = FALSE
  /\ UNCHANGED <<data, allGenres, nodeList, graphNodes, graphEdges, nodeSize, layoutVars,
                 selVars, filterVars, visVars, discVars, gestureVars, hist>>

(* DiscoveryModal: candidates (score 8.0 or higher, or Award Winning) and  *)
(* refreshNodes (a shuffle cut to GRID_SIZE; nothing when no candidate).   *)
Candidates(list) ==
  { list[k].id : k \in { j \in DOMAIN list :
      \/ (list[j].scoreDefined /\ list[j].score >= DISCOVERY_MIN_SCORE)
      \/ (list[j].genresDefined /\ AWARD \in Range(list[j].genres)) } }

Min(a, b) == IF a < b THEN a ELSE b

refreshNodes(list) ==
  IF Candidates(list) = {}
    THEN displayedNodes' = displayedNodes
    ELSE displayedNodes' \in
           { D \in SUBSET Candidates(list) :
               Cardinality(D) = Min(GRID_SIZE, Cardinality(Candidates(list))) }

(* The GraphLoader effect, and the effects of InteractiveGraph mounted in  *)
(* the same commit.  An error thrown by the effect unmounts the tree.      *)
GraphLoader(Placements) ==
  /\ NoFocus
  /\ phase = "fetched"
  /\ LET ins == InsertNodes(data[1].nodes, 1, EmptyFn, <<>>)
         edges == InsertEdges(data[1].edges, 1, ins.nodes, {})
     IN IF ins.thrown
          THEN /\ phase' = "crashed"
               /\ thrown' = TRUE
               /\ UNCHANGED <<nodeList, graphNodes, graphEdges, nodeSize, pos, frameId, visVars,
                              displayedNodes>>
          ELSE /\ phase' = "loaded"
               /\ nodeList' = ins.loaded
               /\ graphEdges' = edges
               /\ graphNodes' = DropIsolated(ins.nodes, edges)
               /\ nodeSize' = SizeNodes(graphNodes', edges)
               /\ pos' \in [DOMAIN graphNodes' -> Placements]
               /\ frameId' = <<0>>
               /\ UNCHANGED <<thrown, selVars, filterVars>>
               /\ VisibilityEffect
               /\ IF isDiscoveryOpen THEN refreshNodes(ins.loaded)
                                     ELSE displayedNodes' = displayedNodes
  /\ UNCHANGED <<data, allGenres, fixed, selVars, filterVars, isDiscoveryOpen, timers,
                 gestureVars, hist>>

----------------------------------------------------------------------------
(* Presentation Shell outputs into the core (ControlPanel, buttons) *)

(* Commit of a Filter State or Selection Set change: the visibility effect *)
(* A render of GraphView passes a new inline onToggleNode to                *)
(* InteractiveGraph: the handler-registration effect runs its cleanup      *)
(* (the document listeners are removed) and registers the sigma events     *)
(* again; the document listeners are attached only by a later downNode.    *)
RerenderCleanup ==
  /\ listeners' = FALSE
  /\ UNCHANGED <<dragInfoRef, buttonDown, hoveredNode, tooltip, cursor, pointer,
                 gestureLog>>

(* Variant of FilterCommit in which a filter change clears the selection *)
FilterCommitClearsSelection ==
  /\ hist' = <<>>
  /\ selectedNodes' = <<>>
  /\ lastSelectedNode' = <<>>
  /\ UNCHANGED <<loadVars, layoutVars, thrown, discVars>>
  /\ RerenderCleanup
  /\ VisibilityEffect

FilterCommit ==
  /\ hist' = <<>>
  /\ UNCHANGED <<loadVars, layoutVars, thrown, selVars, discVars>>
  /\ RerenderCleanup
  /\ VisibilityEffect

SelectionCommit ==
  /\ UNCHANGED <<loadVars, layoutVars, thrown, filterVars>>
  /\ RerenderCleanup
  /\ VisibilityEffect

SetMinStrength ==
  /\ NoFocus
  /\ Alive
  /\ \E v \in StrengthSteps \ {minStrength} : minStrength' = v
  /\ UNCHANGED <<minScore, selectedGenres, isAwardWinningOnly>>
  /\ FilterCommit

SetMinScore ==
  /\ NoFocus
  /\ Alive
  /\ \E v \in ScoreSteps \ {minScore} : minScore' = v
  /\ UNCHANGED <<minStrength, selectedGenres, isAwardWinningOnly>>
  /\ FilterCommit

toggleGenreFilter ==
  /\ NoFocus
  /\ Alive
  /\ \E genre \in allGenres :
       selectedGenres' = IF genre \in selectedGenres
                           THEN selectedGenres \ {genre}
                           ELSE selectedGenres \cup {genre}
  /\ UNCHANGED <<minStrength, minScore, isAwardWinningOnly>>
  /\ FilterCommit

clearGenreFilter ==
  /\ NoFocus
  /\ Alive
  /\ selectedGenres # {}
  /\ selectedGenres' = {}
  /\ UNCHANGED <<minStrength, minScore, isAwardWinningOnly>>
  /\ FilterCommit

toggleAwardWinningOnly ==
  /\ NoFocus
  /\ Alive
  /\ isAwardWinningOnly' = ~isAwardWinningOnly
  /\ UNCHANGED <<minStrength, minScore, selectedGenres>>
  /\ FilterCommit

(* ControlPanel.handleSelectSuggestion: any nodeList entry the search      *)
(* matches; toggled only when not yet selected.                            *)
handleSelectSuggestion ==
  /\ Alive
  /\ Len(selectedNodes) < MaxSelected
  /\ \E id \in NodeListIds \ Range(selectedNodes) :
       /\ handleGraphToggle(id, nodeList, lastSelectedNode, "shell")
       /\ handleFocus(id)
  /\ UNCHANGED discVars
  /\ SelectionCommit

(* Checkbox of the "selected" list (nodeList entries that are selected) *)
SelectedCheckbox ==
  /\ NoFocus
  /\ Alive
  /\ \E id \in NodeListIds \cap Range(selectedNodes) :
       handleGraphToggle(id, nodeList, lastSelectedNode, "shell")
  /\ UNCHANGED discVars
  /\ SelectionCommit

(* Checkbox of the "related" list: visible, not selected nodeList entries, *)
(* shown while something is selected.                                      *)
RelatedCheckbox ==
  /\ NoFocus
  /\ Alive
  /\ selectedNodes # <<>>
  /\ Len(selectedNodes) < MaxSelected
  /\ \E id \in (NodeListIds \cap visibleNodeIds) \ Range(selectedNodes) :
       handleGraphToggle(id, nodeList, lastSelectedNode, "shell")
  /\ UNCHANGED discVars
  /\ SelectionCommit

(* Reset button, "Clear All", DetailPanel reset *)
ClearSelection ==
  /\ NoFocus
  /\ Alive
  /\ selectedNodes # <<>> \/ lastSelectedNode # <<>>
  /\ handleClear
  /\ UNCHANGED discVars
  /\ SelectionCommit

ShellNext ==
  \/ SetMinStrength
  \/ SetMinScore
  \/ toggleGenreFilter
  \/ clearGenreFilter
  \/ toggleAwardWinningOnly
  \/ handleSelectSuggestion
  \/ SelectedCheckbox
  \/ RelatedCheckbox
  \/ ClearSelection

(* Visibility specification *)
Next ==
  \/ FetchData(VisDatasets)
  \/ GraphLoader({Origin})
  \/ ShellNext

Spec == Init /\ [][Next]_vars

(* Load specification *)
NextLoad ==
  \/ FetchData(LoadDatasets)
  \/ GraphLoader({Origin})

SpecLoad == Init /\ [][NextLoad]_vars


----------------------------------------------------------------------------
(* Discovery entry point: Home.setIsDiscoveryOpen, DiscoveryModal,         *)
(* GraphView.handleDiscoveryComplete                                       *)

DiscoveryOpen ==
  /\ NoFocus
  /\ Alive
  /\ ~isDiscoveryOpen
  /\ isDiscoveryOpen' = TRUE
  /\ refreshNodes(nodeList)
  /\ UNCHANGED <<loadVars, layoutVars, thrown, selVars, filterVars, visVars,
                 timers, hist>>
  /\ RerenderCleanup

DiscoveryClose ==
  /\ NoFocus
  /\ Alive
  /\ isDiscoveryOpen
  /\ isDiscoveryOpen' = FALSE
  /\ UNCHANGED <<loadVars, layoutVars, thrown, selVars, filterVars, visVars,
                 displayedNodes, timers, hist>>
  /\ RerenderCleanup

(* Variant of handleDiscoveryComplete without the onClearSelection() call  *)
handleDiscoveryCompleteNoClear(selectedIds) ==
  /\ UNCHANGED <<selVars, hist>>
  /\ timers' = Append(timers, [ids |-> selectedIds, nodeList |-> nodeList,
                               last |-> lastSelectedNode])

(* onClearSelection(), then setTimeout(..., 50) whose callback keeps the   *)
(* nodeList and the onToggleNode (with its lastSelectedNode) of this       *)
(* render.                                                                 *)
handleDiscoveryComplete(selectedIds) ==
  /\ handleClear
  /\ timers' = Append(timers, [ids |-> selectedIds, nodeList |-> nodeList,
                               last |-> lastSelectedNode])

(* DiscoveryModal.handleSelect: onComplete([node.id]); onClose() *)
handleSelect ==
  /\ NoFocus
  /\ Alive
  /\ isDiscoveryOpen
  /\ Len(timers) < MaxPending
  /\ \E id \in displayedNodes : handleDiscoveryComplete(<<id>>)
  /\ isDiscoveryOpen' = FALSE
  /\ UNCHANGED <<displayedNodes>>
  /\ UNCHANGED <<loadVars, layoutVars, thrown, filterVars>>
  /\ RerenderCleanup
  /\ VisibilityEffect

(* selectedIds.forEach of the timeout callback, for the single picked id *)
DiscoveryTimeout ==
  /\ NoFocus
  /\ Alive
  /\ timers # <<>>
  /\ handleGraphToggle(Head(timers).ids[1], Head(timers).nodeList, Head(timers).last,
                       "discovery")
  /\ timers' = Tail(timers)
  /\ UNCHANGED <<isDiscoveryOpen, displayedNodes>>
  /\ UNCHANGED <<loadVars, layoutVars, thrown, filterVars>>
  /\ RerenderCleanup
  /\ VisibilityEffect

SelectionNext ==
  \/ handleSelectSuggestion
  \/ SelectedCheckbox
  \/ RelatedCheckbox
  \/ ClearSelection

(* Datasets of the discovery specification: three nodes, all of them      *)
(* discovery candidates but Z; W has no edge.                              *)
DiscDatasets ==
  { [nodes |-> <<NodeX, NodeZ, NodeW>>, edges |-> es] :
      es \in SubSeqs(<<RawEdge("X", "Z", 4), RawEdge("Z", "X", 1)>>) }

NextDiscovery ==
  \/ FetchData(DiscDatasets)
  \/ GraphLoader({Origin})
  \/ SelectionNext
  \/ DiscoveryOpen
  \/ DiscoveryClose
  \/ handleSelect
  \/ DiscoveryTimeout

SpecDiscovery == Init /\ [][NextDiscovery]_vars

ShellDatasets ==
  { [nodes |-> <<NodeX, NodeZ>>, edges |-> <<RawEdge("X", "Z", 4)>>] }

(* Shell specification: the selection operations, the discovery entry     *)
(* point and the filter controls together                                  *)
NextShell ==
  \/ FetchData(ShellDatasets)
  \/ GraphLoader({Origin})
  \/ SetMinStrength
  \/ SetMinScore
  \/ toggleGenreFilter
  \/ clearGenreFilter
  \/ toggleAwardWinningOnly
  \/ SelectionNext
  \/ DiscoveryOpen
  \/ DiscoveryClose
  \/ handleSelect
  \/ DiscoveryTimeout

SpecShell == Init /\ [][NextShell]_vars

----------------------------------------------------------------------------
(* Commit and passive effects of an update that no interaction caused:     *)
(* the setTimeout callback of handleDiscoveryComplete.  React commits the  *)
(* render, lets the browser paint, and runs the useEffect callbacks of the *)
(* commit afterwards; the visibility effect then calls                     *)
(* onUpdateVisibleNodes and sigma.setSetting.                              *)

NoPendingEffect == effectPending = "none"

(* The timeout callback and the commit of the render it causes: the        *)
(* selection is new, visibleNodeIds and the reducers are those of the      *)
(* last run of the visibility effect.                                      *)
TimeoutCommit ==
  /\ NoFocus
  /\ Alive
  /\ NoPendingEffect
  /\ timers # <<>>
  /\ handleGraphToggle(Head(timers).ids[1], Head(timers).nodeList, Head(timers).last,
                       "discovery")
  /\ timers' = Tail(timers)
  /\ UNCHANGED <<isDiscoveryOpen, displayedNodes>>
  /\ UNCHANGED <<loadVars, layoutVars, thrown, filterVars>>
  /\ RerenderCleanup
  /\ UNCHANGED <<visibleNodeIds, reducerEnv>>
  /\ effectPending' = IF Loaded /\ selectedNodes' # selectedNodes THEN "timer" ELSE "none"

(* The passive effects of that commit: the visibility effect runs with the *)
(* committed selection and filters.                                        *)
PassiveEffects ==
  /\ NoFocus
  /\ effectPending = "timer"
  /\ UNCHANGED <<loadVars, layoutVars, thrown, selVars, filterVars, discVars,
                 gestureVars, hist>>
  /\ VisibilityEffect

NextPaint ==
  \/ NoPendingEffect /\ FetchData(DiscDatasets)
  \/ NoPendingEffect /\ GraphLoader({Origin})
  \/ NoPendingEffect /\ DiscoveryOpen
  \/ NoPendingEffect /\ DiscoveryClose
  \/ NoPendingEffect /\ handleSelect
  \/ NoPendingEffect /\ toggleAwardWinningOnly
  \/ TimeoutCommit
  \/ PassiveEffects

SpecPaint == Init /\ [][NextPaint]_vars

----------------------------------------------------------------------------
(* Interaction Controller: the handler-registration effect of              *)
(* InteractiveGraph, the tooltip effect and the layout loop                *)

(* clientX / clientY of the pointer events *)
PointerPoints == {<<0, 0>>, <<3, 4>>, <<4, 4>>}

(* clientX / clientY of a press *)
PressPoints == {<<0, 0>>}

(* Positions the layout gives a node *)
LayoutPlacements == {<<0, 0>>, <<20, 0>>}

(* sigma.viewportToGraph of the pointer relative to the container, for a   *)
(* camera panned by 10 (the graph's y axis points up).                     *)
ViewportToGraph(p) == <<p[1] + 10, 10 - p[2]>>

(* Math.hypot(dx, dy) > 5 *)
BeyondThreshold(startX, startY, p) ==
  (p[1] - startX) * (p[1] - startX) + (p[2] - startY) * (p[2] - startY)
    > DRAG_THRESHOLD * DRAG_THRESHOLD

Dragging == dragInfoRef # <<>> /\ dragInfoRef[1].isDragging

(* Variant of the tooltip effect that does not test isDragging *)
TooltipForIgnoresDrag(h) ==
  IF h = <<>> THEN <<>>
  ELSE IF h[1] \notin DOMAIN graphNodes \/ h[1] \notin visibleNodeIds THEN <<>>
  ELSE h

(* The tooltip effect, run when hoveredNode changes to h *)
TooltipFor(h) ==
  IF h = <<>> \/ Dragging THEN <<>>
  ELSE IF h[1] \notin DOMAIN graphNodes \/ h[1] \notin visibleNodeIds THEN <<>>
  ELSE h

(* setTooltip re-renders GraphView unless null replaces null *)
TooltipCommit(t) ==
  /\ tooltip' = t
  /\ listeners' = IF t = <<>> /\ tooltip = <<>> THEN listeners ELSE FALSE

enterNode ==
  /\ NoFocus
  /\ Loaded
  /\ \E node \in (DOMAIN graphNodes \cap visibleNodeIds) \ Range(hoveredNode) :
       /\ hoveredNode' = <<node>>
       /\ TooltipCommit(TooltipFor(<<node>>))
  /\ cursor' = IF dragInfoRef = <<>> THEN "grab" ELSE cursor
  /\ UNCHANGED <<loadVars, layoutVars, thrown, selVars, filterVars, visVars,
                 discVars, dragInfoRef, buttonDown, pointer, gestureLog, hist>>

leaveNode ==
  /\ NoFocus
  /\ Loaded
  /\ hoveredNode # <<>>
  /\ hoveredNode' = <<>>
  /\ TooltipCommit(TooltipFor(<<>>))
  /\ cursor' = IF dragInfoRef = <<>> THEN "default" ELSE cursor
  /\ UNCHANGED <<loadVars, layoutVars, thrown, selVars, filterVars, visVars,
                 discVars, dragInfoRef, buttonDown, pointer, gestureLog, hist>>

(* The record of a press: the node pressed (none for the stage), the      *)
(* Selection Set at the press, whether a move went beyond the threshold,   *)
(* the latest position a move wrote, whether a layout tick ran during the  *)
(* drag, and at the release whether the gesture was dragging.              *)
NewGestureLog(node) ==
  [node |-> node, sel |-> selectedNodes, exceeded |-> FALSE, lastWrite |-> <<>>,
   ticked |-> FALSE, released |-> FALSE, dragged |-> FALSE]

(* sigma downNode with the primary button: sigma emits it for the node    *)
(* the pointer is over, which it has announced by enterNode before.        *)
downNode ==
  /\ NoFocus
  /\ Loaded
  /\ ~buttonDown
  /\ \E node \in DOMAIN graphNodes \cap visibleNodeIds \cap Range(hoveredNode),
        p \in PressPoints :
       /\ dragInfoRef' = <<[nodeId |-> node, startX |-> p[1], startY |-> p[2],
                            isDragging |-> FALSE]>>
       /\ pointer' = p
  /\ listeners' = TRUE
  /\ buttonDown' = TRUE
  /\ \E node \in Range(dragInfoRef') : gestureLog' = <<NewGestureLog(<<node.nodeId>>)>>
  /\ UNCHANGED <<loadVars, layoutVars, thrown, selVars, filterVars, visVars,
                 discVars, hoveredNode, tooltip, cursor, hist>>

(* A press of the primary button outside any node: clickStage is empty and *)
(* no gesture is recorded.                                                 *)
downStage ==
  /\ NoFocus
  /\ Loaded
  /\ ~buttonDown
  /\ hoveredNode = <<>>
  /\ buttonDown' = TRUE
  /\ \E p \in PressPoints : pointer' = p
  /\ gestureLog' = <<NewGestureLog(<<>>)>>
  /\ UNCHANGED <<loadVars, layoutVars, thrown, selVars, filterVars, visVars,
                 discVars, dragInfoRef, listeners, hoveredNode, tooltip, cursor, hist>>

(* The record of the press after a move to p: the displacement is noted,   *)
(* and the position when the mousemove handler writes it.                  *)
GestureLogAfterMove(p) ==
  IF buttonDown /\ gestureLog # <<>> /\ gestureLog[1].node # <<>> /\ dragInfoRef # <<>>
    THEN LET d == dragInfoRef[1]
             beyond == BeyondThreshold(d.startX, d.startY, p)
             writes == listeners /\ (d.isDragging \/ beyond) /\ d.nodeId \in DOMAIN graphNodes
         IN <<[gestureLog[1] EXCEPT
                 !.exceeded = @ \/ beyond,
                 !.lastWrite = IF writes THEN <<ViewportToGraph(p)>> ELSE @]>>
    ELSE gestureLog

(* A pointer move to p; the document mousemove listener runs only while it *)
(* is attached.  graphology's hasNodeAttribute / setNodeAttribute throw    *)
(* for an id that is not a node of the graph.  A move with the button up   *)
(* and no listener attached reaches no handler and is left out: the next   *)
(* press overwrites the pointer position.                                  *)
handleMouseMove ==
  /\ NoFocus
  /\ Alive
  /\ buttonDown \/ listeners
  /\ \E p \in PointerPoints \ {pointer} :
       /\ pointer' = p
       /\ gestureLog' = GestureLogAfterMove(p)
       /\ IF ~listeners \/ dragInfoRef = <<>>
            THEN UNCHANGED <<dragInfoRef, layoutVars, thrown, tooltip, listeners, cursor>>
          ELSE LET d == dragInfoRef[1]
                   starts == ~d.isDragging /\ BeyondThreshold(d.startX, d.startY, p)
               IN IF ~(d.isDragging \/ starts)
                    THEN UNCHANGED <<dragInfoRef, layoutVars, thrown, tooltip, listeners,
                                     cursor>>
                  ELSE IF d.nodeId \notin DOMAIN graphNodes
                    THEN /\ dragInfoRef' = <<[d EXCEPT !.isDragging = TRUE]>>
                         /\ thrown' = TRUE
                         /\ UNCHANGED <<layoutVars, tooltip, listeners, cursor>>
                  ELSE /\ dragInfoRef' = <<[d EXCEPT !.isDragging = TRUE]>>
                       /\ fixed' = IF starts THEN fixed \cup {d.nodeId} ELSE fixed
                       /\ IF starts THEN TooltipCommit(<<>>)
                                    ELSE UNCHANGED <<tooltip, listeners>>
                       /\ cursor' = IF starts THEN "grabbing" ELSE cursor
                       /\ pos' = [pos EXCEPT ![d.nodeId] = ViewportToGraph(p)]
                       /\ UNCHANGED <<thrown, frameId>>
  /\ UNCHANGED <<loadVars, selVars, filterVars, visVars, discVars,
                 buttonDown, hoveredNode, hist>>

(* Variant of the latch test that takes every release for a click *)
isDraggingNever(d) == FALSE

(* `if (isDragging)` of handleMouseUp: the latch set by handleMouseMove *)
isDragging(d) == d.isDragging

(* Variant that resets the cursor on every release, handled or not *)
CursorAfterMouseUpAlways(reached) == "default"

(* document.body.style.cursor after a release: reset to 'default' only    *)
(* when handleMouseUp runs and gets past its guard and its branch          *)
CursorAfterMouseUp(reached) == IF reached THEN "default" ELSE cursor

(* Release of the primary button: document mouseup, handled only while the *)
(* listener is attached.  getNodeAttributes throws for a missing node.     *)
handleMouseUp ==
  /\ Alive
  /\ buttonDown
  /\ buttonDown' = FALSE
  /\ gestureLog' = IF gestureLog = <<>> THEN <<>>
                   ELSE <<[gestureLog[1] EXCEPT !.released = TRUE,
                                                !.dragged = (@ \/ (gestureLog[1].node # <<>> /\ Dragging))]>>
  /\ UNCHANGED <<loadVars, pos, frameId, filterVars, discVars, hoveredNode, tooltip,
                 pointer>>
  /\ IF ~listeners \/ dragInfoRef = <<>>
       THEN /\ NoFocus
            /\ cursor' = CursorAfterMouseUp(FALSE)
            /\ UNCHANGED <<dragInfoRef, listeners, fixed, thrown, selVars, hist,
                           visVars>>
     ELSE LET d == dragInfoRef[1] IN
       IF isDragging(d)
         THEN /\ fixed' = fixed \ {d.nodeId}
              /\ dragInfoRef' = <<>>
              /\ cursor' = CursorAfterMouseUp(TRUE)
              /\ listeners' = FALSE
              /\ NoFocus
              /\ UNCHANGED <<thrown, selVars, hist, visVars>>
       ELSE IF d.nodeId \notin DOMAIN graphNodes
         THEN /\ thrown' = TRUE
              /\ NoFocus
              /\ cursor' = CursorAfterMouseUp(FALSE)
              /\ UNCHANGED <<dragInfoRef, listeners, fixed, selVars, hist, visVars>>
       ELSE /\ handleGraphToggle(d.nodeId, nodeList, lastSelectedNode, "click")
            /\ handleFocus(d.nodeId)
            /\ dragInfoRef' = <<>>
            /\ cursor' = CursorAfterMouseUp(TRUE)
            /\ listeners' = FALSE
            /\ UNCHANGED <<fixed, thrown>>
            /\ VisibilityEffect

(* The record of the press after an animation frame *)
GestureLogAfterTick ==
  IF buttonDown /\ gestureLog # <<>> /\ gestureLog[1].node # <<>> /\ Dragging
    THEN <<[gestureLog[1] EXCEPT !.ticked = TRUE]>>
    ELSE gestureLog

(* Ids that requestAnimationFrame hands out, counted modulo the size of    *)
(* the set: the gesture specifications do not tell one frame from the     *)
(* next, the layout specification does.                                   *)
GestureFrames == {0}
LayoutFrames == {0, 1}

NextFrameId(FrameIds) == <<(frameId[1] + 1) % Cardinality(FrameIds)>>

(* Variant of animate whose layout pass moves the nodes carrying `fixed`   *)
(* as well                                                                 *)
animateIgnoresFixed(FrameIds) ==
  /\ NoFocus
  /\ frameId # <<>>
  /\ pos' \in [DOMAIN graphNodes -> LayoutPlacements]
  /\ frameId' = NextFrameId(FrameIds)
  /\ gestureLog' = GestureLogAfterTick
  /\ UNCHANGED <<loadVars, fixed, thrown, selVars, filterVars, visVars,
                 discVars, dragInfoRef, listeners, buttonDown, hoveredNode, tooltip,
                 cursor, pointer, hist>>

(* Variant of animate that requests no further frame once a tick has left *)
(* every node in place                                                     *)
animateStopsAtRest(FrameIds) ==
  /\ NoFocus
  /\ frameId # <<>>
  /\ pos' \in { f \in [DOMAIN graphNodes -> LayoutPlacements \cup Range(pos)] :
                  \A n \in DOMAIN graphNodes :
                    IF n \in fixed THEN f[n] = pos[n] ELSE f[n] \in LayoutPlacements }
  /\ frameId' = IF pos' = pos THEN <<>> ELSE NextFrameId(FrameIds)
  /\ gestureLog' = GestureLogAfterTick
  /\ UNCHANGED <<loadVars, fixed, thrown, selVars, filterVars, visVars,
                 discVars, dragInfoRef, listeners, buttonDown, hoveredNode, tooltip,
                 cursor, pointer, hist>>

(* One animation frame, the callback of the frame requested last:          *)
(* forceAtlas2.assign moves the nodes that do not carry `fixed` (nothing   *)
(* when the graph has no node), then the next frame is requested.          *)
animate(FrameIds) ==
  /\ NoFocus
  /\ frameId # <<>>
  /\ pos' \in { f \in [DOMAIN graphNodes -> LayoutPlacements \cup Range(pos)] :
                  \A n \in DOMAIN graphNodes :
                    IF n \in fixed THEN f[n] = pos[n] ELSE f[n] \in LayoutPlacements }
  /\ frameId' = NextFrameId(FrameIds)
  /\ gestureLog' = GestureLogAfterTick
  /\ UNCHANGED <<loadVars, fixed, thrown, selVars, filterVars, visVars,
                 discVars, dragInfoRef, listeners, buttonDown, hoveredNode, tooltip,
                 cursor, pointer, hist>>

GestureDatasets ==
  { [nodes |-> <<NodeX, NodeZ, NodeW>>, edges |-> <<RawEdge("X", "Z", 4)>>] }

NextGesture ==
  \/ FetchData(GestureDatasets)
  \/ GraphLoader(LayoutPlacements)
  \/ enterNode
  \/ leaveNode
  \/ downNode
  \/ downStage
  \/ handleMouseMove
  \/ handleMouseUp
  \/ animate(GestureFrames)

SpecGesture == Init /\ [][NextGesture]_vars

(* React unmounts the view: the cleanup of the layout effect cancels the   *)
(* requested frame, the cleanup of the handler effect removes the          *)
(* document listeners.                                                     *)
Unmount ==
  /\ NoFocus
  /\ Loaded
  /\ phase' = "unmounted"
  /\ frameId' = <<>>
  /\ listeners' = FALSE
  /\ UNCHANGED <<data, allGenres, nodeList, graphNodes, graphEdges, nodeSize, pos, fixed, thrown,
                 selVars, filterVars, visVars, discVars, dragInfoRef, buttonDown,
                 hoveredNode, tooltip, cursor, pointer, gestureLog, hist>>

(* Layout specification: graphs with no node, two nodes and three nodes,   *)
(* pointer-enter and pointer-leave events, and the unmount.  The browser   *)
(* runs every requested animation frame.                                   *)
LayoutDatasets ==
  { [nodes |-> <<NodeX, NodeZ, NodeW>>, edges |-> es] :
      es \in SubSeqs(<<RawEdge("X", "Z", 4), RawEdge("Z", "W", 4)>>) }

NextLayout ==
  \/ FetchData(LayoutDatasets)
  \/ GraphLoader(LayoutPlacements)
  \/ animate(LayoutFrames)
  \/ enterNode
  \/ leaveNode
  \/ Unmount

SpecLayout == Init /\ [][NextLayout]_vars /\ WF_vars(animate(LayoutFrames))

(* Fetch specification: the fetch succeeds or fails; the controls of the   *)
(* shell stay usable either way.                                           *)
NextFetch ==
  \/ FetchData(ShellDatasets)
  \/ FetchDataFails
  \/ GraphLoader(LayoutPlacements)
  \/ animate(LayoutFrames)
  \/ SetMinStrength
  \/ SetMinScore
  \/ toggleAwardWinningOnly
  \/ DiscoveryOpen
  \/ DiscoveryClose

SpecFetch == Init /\ [][NextFetch]_vars

----------------------------------------------------------------------------
(* FitViewButton.handleFit.  Numbers are fractions <<numerator,            *)
(* denominator>> of non-negative integers compared by cross-multiplying;   *)
(* a zero denominator carries the IEEE results of a division by zero:      *)
(* <<1, 0>> is Infinity and <<0, 0>> is NaN.                               *)
NaN == <<0, 0>>
Infinity == <<1, 0>>

IsNaN(r) == r = NaN

(* a / b for a >= 0, b >= 0 *)
Divide(a, b) ==
  IF b = 0 THEN (IF a = 0 THEN NaN ELSE Infinity) ELSE <<a, b>>

Times(p, q) ==
  IF IsNaN(p) \/ IsNaN(q) THEN NaN
  ELSE IF p[2] * q[2] = 0 THEN Infinity
  ELSE <<p[1] * q[1], p[2] * q[2]>>

(* p < q; false when either side is NaN *)
Less(p, q) == ~IsNaN(p) /\ ~IsNaN(q) /\ p[1] * q[2] < q[1] * p[2]

(* Math.max and Math.min return NaN when an argument is NaN *)
MathMax(p, q) == IF IsNaN(p) \/ IsNaN(q) THEN NaN ELSE IF Less(p, q) THEN q ELSE p
MathMin(p, q) == IF IsNaN(p) \/ IsNaN(q) THEN NaN ELSE IF Less(q, p) THEN q ELSE p

FIT_MARGIN == <<12, 10>>
FIT_MIN_RATIO == <<1, 10>>
FIT_MAX_RATIO == <<3, 1>>
minCameraRatio == <<1, 10>>
maxCameraRatio == <<4, 1>>

(* Math.min(Math.max(ratio, 0.1), 3.0) *)
finalRatio(ratio) == MathMin(MathMax(ratio, FIT_MIN_RATIO), FIT_MAX_RATIO)

(* The nodes whose display data is not hidden *)
Displayed == { n \in DOMAIN graphNodes : ~nodeReducer(reducerEnv[1], n).hidden }

(* The camera animations handleFit commands for a container of the given   *)
(* dimensions; the centre is kept doubled (minX + maxX, minY + maxY).      *)
FitAnimations(dims) ==
  IF Displayed = {} THEN <<>>
  ELSE LET xs == { pos[n][1] : n \in Displayed }
           ys == { pos[n][2] : n \in Displayed }
           graphWidth == SetMax(xs) - SetMin(xs)
           graphHeight == SetMax(ys) - SetMin(ys)
           ratio == Times(MathMax(Divide(graphWidth, dims[1]),
                                  Divide(graphHeight, dims[2])), FIT_MARGIN)
       IN <<[x2 |-> SetMin(xs) + SetMax(xs), y2 |-> SetMin(ys) + SetMax(ys),
             ratio |-> finalRatio(ratio)]>>

(* sigma.getDimensions(): the container fills the area under the header;   *)
(* sigma runs with allowInvalidContainer, so a container of height 0 (a    *)
(* window no taller than the header) is rendered too.                      *)
Dimensions == {<<4, 4>>, <<100, 50>>, <<2000, 1000>>, <<100, 0>>}

(* node positions on load, with two distinct x and two distinct y *)
FitPlacements == {<<0, 0>>, <<20, 0>>, <<0, 6>>}

(* The "Fit View" button is activated *)
handleFit ==
  /\ Loaded
  /\ reducerEnv # <<>>
  /\ \E dims \in Dimensions :
       fitLog' = <<[dims |-> dims, displayed |-> Displayed,
                    animations |-> FitAnimations(dims)]>>
  /\ focusLog' = <<>>
  /\ UNCHANGED <<loadVars, layoutVars, thrown, selVars, filterVars, visVars,
                 discVars, gestureVars, hist>>

NextFit ==
  \/ FetchData(LayoutDatasets)
  \/ GraphLoader(FitPlacements)
  \/ SetMinScore
  \/ toggleAwardWinningOnly
  \/ handleFit

SpecFit == Init /\ [][NextFit]_vars

(* Gestures (clicks toggle the selection, drags pin and move nodes)        *)
(* together with changes of the Filter State                               *)
NextHide ==
  \/ FetchData(GestureDatasets)
  \/ GraphLoader({Origin})
  \/ enterNode
  \/ downNode
  \/ handleMouseMove
  \/ handleMouseUp
  \/ toggleAwardWinningOnly

SpecHide == Init /\ [][NextHide]_vars

(* The failure case of the Interaction Controller: the node of the current *)
(* gesture is removed from the Graph Store (graph.dropNode) mid-gesture.   *)
RemoveGestureNode ==
  /\ NoFocus
  /\ Loaded
  /\ dragInfoRef # <<>>
  /\ dragInfoRef[1].nodeId \in DOMAIN graphNodes
  /\ LET n == dragInfoRef[1].nodeId IN
       /\ graphNodes' = [m \in DOMAIN graphNodes \ {n} |-> graphNodes[m]]
       /\ nodeSize' = [m \in DOMAIN graphNodes \ {n} |-> nodeSize[m]]
       /\ graphEdges' = {e \in graphEdges : e.source # n /\ e.target # n}
       /\ pos' = [m \in DOMAIN graphNodes \ {n} |-> pos[m]]
       /\ fixed' = fixed \ {n}
  /\ UNCHANGED <<data, allGenres, nodeList, phase, frameId, thrown, selVars, filterVars,
                 visVars, discVars, gestureVars, hist>>

NextRemoval ==
  \/ NextGesture
  \/ RemoveGestureNode

SpecRemoval == Init /\ [][NextRemoval]_vars

----------------------------------------------------------------------------
(* Claims on the Visibility Resolver and the Selection Set (Spec) *)

(* C1: for every non-empty Selection Set reachable through toggle and      *)
(* every Filter State, the Active Set contains every selected id.          *)
C1_SelectedAlwaysActive ==
  (Loaded /\ selectedNodes # <<>>) => Range(selectedNodes) \subseteq visibleNodeIds

(* Scenario A: graph X (9), Y (5), Z (7), edges X-Y 0.4 and X-Z 0.1,       *)
(* minScore 6, minStrength 0.2, no genre or award filter, nothing selected *)
ScenarioA ==
  /\ Loaded
  /\ DOMAIN graphNodes = {"X", "Y", "Z"}
  /\ graphNodes["X"].score = 9 /\ graphNodes["Y"].score = 5 /\ graphNodes["Z"].score = 7
  /\ graphEdges = { [source |-> "X", target |-> "Y", weight |-> 4],
                    [source |-> "X", target |-> "Z", weight |-> 1] }
  /\ minScore = 6 /\ minStrength = 2
  /\ selectedGenres = {} /\ ~isAwardWinningOnly
  /\ selectedNodes = <<>>

FilterValid(n) ==
  /\ n \in DOMAIN graphNodes
  /\ graphNodes[n].score >= minScore
  /\ isAwardWinningOnly => AWARD \in Range(graphNodes[n].genres)
  /\ (~isAwardWinningOnly /\ selectedGenres # {}) =>
       Range(graphNodes[n].genres) \cap selectedGenres # {}

StrengthValidEdgeJoins(n, s) ==
  \E e \in graphEdges :
    e.weight >= minStrength /\ {e.source, e.target} = {n, s}

(* C4: for a non-empty Selection Set of graph nodes, Active Set =           *)
(* Selection Set \cup { n : n filter-valid and joined to every selected id *)
(* by a strength-valid edge }.                                             *)
C4_SelectionBranch ==
  (Loaded /\ selectedNodes # <<>> /\ Range(selectedNodes) \subseteq DOMAIN graphNodes) =>
    visibleNodeIds =
      Range(selectedNodes) \cup
      {n \in DOMAIN graphNodes :
         FilterValid(n) /\ \A s \in Range(selectedNodes) : StrengthValidEdgeJoins(n, s)}

(* Two selected graph nodes with a common qualifying neighbour that is not *)
(* selected, and a neighbour of the first that the intersection removed.   *)
C4_Witness ==
  /\ Loaded
  /\ Len(selectedNodes) = 2
  /\ Range(selectedNodes) \subseteq DOMAIN graphNodes
  /\ visibleNodeIds \ Range(selectedNodes) # {}

C4_WitnessSingle ==
  /\ Loaded
  /\ Len(selectedNodes) = 1
  /\ selectedNodes[1] \in DOMAIN graphNodes
  /\ degree(graphEdges, selectedNodes[1]) > 0
  /\ visibleNodeIds = {selectedNodes[1]}

LastToggle == hist[Len(hist)]

(* C6: intersection monotonicity: after toggling an unselected id n into   *)
(* the Selection Set, Active Set \subseteq (Active Set before) \cup {n}.    *)
C6_Monotone ==
  (Loaded /\ hist # <<>> /\ LastToggle.on) =>
    visibleNodeIds \subseteq (LastToggle.vis \cup {LastToggle.id})

(* A toggle-on that strictly shrank a non-empty selection's Active Set *)
C6_Witness ==
  /\ Loaded /\ hist # <<>> /\ LastToggle.on
  /\ LastToggle.sel # <<>>
  /\ visibleNodeIds # LastToggle.vis \cup {LastToggle.id}
  /\ LastToggle.id \in visibleNodeIds

(* C7: idempotence: toggling n on and then off restores the Selection Set, *)
(* in the same order, and the Active Set.                                  *)
C7_ToggleTwice ==
  (Loaded /\ Len(hist) = 2) =>
    /\ selectedNodes = hist[1].sel
    /\ visibleNodeIds = hist[1].vis

C7_Witness ==
  /\ Loaded /\ Len(hist) = 2
  /\ Len(hist[1].sel) = 2
  /\ hist[1].vis # {}

StrengthValidEdgeAt(n) ==
  \E e \in graphEdges : e.weight >= minStrength /\ n \in {e.source, e.target}

(* C11: with an empty Selection Set, for every Filter State, Active Set =  *)
(* the nodes of the Graph Store that are filter-valid and an endpoint of   *)
(* at least one edge with strength >= minStrength.                         *)
C11_EmptySelection ==
  (Loaded /\ selectedNodes = <<>>) =>
    visibleNodeIds = {n \in DOMAIN graphNodes : FilterValid(n) /\ StrengthValidEdgeAt(n)}

(* C11 witness: a genre filter is set, some node is active and some node   *)
(* with a strength-valid edge is filtered out.                             *)
C11_Witness ==
  /\ Loaded /\ selectedNodes = <<>>
  /\ selectedGenres # {}
  /\ visibleNodeIds # {}
  /\ \E n \in DOMAIN graphNodes \ visibleNodeIds : StrengthValidEdgeAt(n)

(* C12: with awardWinningOnly set and an empty Selection Set, every node   *)
(* of the Active Set has the award tag in its genres.                      *)
C12_AwardOnly ==
  (Loaded /\ isAwardWinningOnly /\ selectedNodes = <<>>) =>
    \A n \in visibleNodeIds : AWARD \in Range(graphNodes[n].genres)

(* C12 witness: award-only mode shows an award node and hides a node that  *)
(* passes the score filter and has a strength-valid edge.                  *)
C12_Witness ==
  /\ Loaded /\ isAwardWinningOnly /\ selectedNodes = <<>>
  /\ visibleNodeIds # {}
  /\ \E n \in DOMAIN graphNodes \ visibleNodeIds :
       StrengthValidEdgeAt(n) /\ graphNodes[n].score >= minScore

(* C13: the edge reducer renders an edge iff its strength >= minStrength   *)
(* and both endpoints are in the Active Set; a rendered edge is            *)
(* highlighted when an endpoint is selected and dimmed otherwise.          *)
C13_EdgeReducer ==
  Loaded =>
    /\ reducerEnv # <<>>
    /\ \A e \in graphEdges :
         LET r == edgeReducer(reducerEnv[1], e) IN
           /\ ~r.hidden <=> /\ e.weight >= minStrength
                            /\ e.source \in visibleNodeIds
                            /\ e.target \in visibleNodeIds
           /\ ~r.hidden =>
                r.style = IF {e.source, e.target} \cap Range(selectedNodes) # {}
                            THEN "highlighted" ELSE "dimmed"

(* C13 witness: a highlighted edge and a dimmed edge are rendered together *)
C13_Witness ==
  /\ Loaded /\ reducerEnv # <<>>
  /\ \E e \in graphEdges : edgeReducer(reducerEnv[1], e).style = "highlighted"
  /\ \E e \in graphEdges : edgeReducer(reducerEnv[1], e).style = "dimmed"

(* C13 witness: a strength-valid edge is hidden because an endpoint is not *)
(* active, next to a rendered one                                          *)
C13_WitnessHidden ==
  /\ Loaded /\ reducerEnv # <<>>
  /\ \E e \in graphEdges : e.weight >= minStrength /\ edgeReducer(reducerEnv[1], e).hidden
  /\ \E e \in graphEdges : ~edgeReducer(reducerEnv[1], e).hidden

----------------------------------------------------------------------------
(* Claims on load (SpecLoad) *)

(* C8: after load the Graph Store holds at most one edge per unordered     *)
(* pair of nodes, whatever the order and orientation of the declarations,  *)
(* and it carries the strength of the first declaration.                   *)
FirstDeclared(a, b) ==
  LET decls == data[1].edges
      k == CHOOSE i \in DOMAIN decls :
             /\ {decls[i].source, decls[i].target} = {a, b}
             /\ \A j \in 1..(i - 1) : {decls[j].source, decls[j].target} # {a, b}
  IN decls[k].strength

C8_OneEdgePerPair ==
  Loaded =>
    \A e1 \in graphEdges :
      /\ \A e2 \in graphEdges :
           {e1.source, e1.target} = {e2.source, e2.target} => e1 = e2
      /\ e1.weight = FirstDeclared(e1.source, e1.target)

Malformed(ds) ==
  \E k \in DOMAIN ds.nodes : ~ds.nodes[k].genresDefined \/ ~ds.nodes[k].scoreDefined

(* C9: loading a dataset with a node entry that lacks a required field     *)
(* raises no error, and every other node and edge loads as usual.          *)
C9_MissingFieldLoads ==
  (data # <<>> /\ Malformed(data[1]) /\ phase # "fetched") =>
    /\ ~thrown
    /\ Loaded

(* Structure of the Graph Store after load: every node has an edge, every  *)
(* edge joins two nodes of the store, and the load raised no error.        *)
LoadedStructure ==
  /\ ~thrown
  /\ \A n \in DOMAIN graphNodes : degree(graphEdges, n) >= 1
  /\ \A e \in graphEdges : e.source \in DOMAIN graphNodes /\ e.target \in DOMAIN graphNodes

(* C27 as stated: after load every node of the Graph Store has a score of  *)
(* at least LOAD_MIN_SCORE and degree >= 1, both endpoints of every edge   *)
(* are nodes of the store, and an edge declared with a discarded or        *)
(* undeclared endpoint is not materialized and raises no error.            *)
C27_LoadedScoreAndDegree ==
  Loaded =>
    /\ LoadedStructure
    /\ \A n \in DOMAIN graphNodes :
         graphNodes[n].scoreDefined /\ graphNodes[n].score >= LOAD_MIN_SCORE

(* C27 amended: as stated, but the score floor holds for the nodes whose   *)
(* entry has a score; an entry without a score is materialized.            *)
C27_LoadedStructure ==
  Loaded =>
    /\ LoadedStructure
    /\ \A n \in DOMAIN graphNodes :
         graphNodes[n].scoreDefined => graphNodes[n].score >= LOAD_MIN_SCORE
    /\ \A k \in DOMAIN data[1].nodes :
         (~data[1].nodes[k].scoreDefined /\ degree(graphEdges, data[1].nodes[k].id) >= 1)
           => data[1].nodes[k].id \in DOMAIN graphNodes

(* A load that discarded an entry below the floor and skipped a declared   *)
(* edge with an endpoint outside the store                                 *)
C27_Witness ==
  /\ Loaded /\ graphEdges # {}
  /\ \E k \in DOMAIN data[1].nodes :
       /\ data[1].nodes[k].scoreDefined /\ data[1].nodes[k].score < LOAD_MIN_SCORE
       /\ data[1].nodes[k].id \notin DOMAIN graphNodes
  /\ \E k \in DOMAIN data[1].edges :
       {data[1].edges[k].source, data[1].edges[k].target} \cap DOMAIN graphNodes
         # {data[1].edges[k].source, data[1].edges[k].target}

(* A load that dropped a node above the floor for having no edge *)
C27_WitnessIsolated ==
  /\ Loaded /\ graphEdges # {}
  /\ \E k \in DOMAIN data[1].nodes :
       /\ data[1].nodes[k].score >= LOAD_MIN_SCORE
       /\ data[1].nodes[k].id \notin DOMAIN graphNodes

(* A loaded store holding a node whose entry has no score *)
C27_WitnessNoScore ==
  Loaded /\ \E n \in DOMAIN graphNodes : ~graphNodes[n].scoreDefined

----------------------------------------------------------------------------
(* Claims on the discovery entry point (SpecDiscovery) *)

PickStep == isDiscoveryOpen /\ Len(timers') = Len(timers) + 1

TimeoutStep == timers # <<>> /\ Len(timers') = Len(timers) - 1

(* C10 as stated: a discovery pick of n adds or removes no id other than n *)
C10_PickOnlyTogglesPicked ==
  [][PickStep =>
       \A m \in Range(selectedNodes) \ Range(timers'[Len(timers')].ids) :
         m \in Range(selectedNodes')]_vars

(* C10 amended: the pick clears the Selection Set, and its deferred step   *)
(* changes the Selection Set of that moment exactly as toggle(n) does: no  *)
(* id other than n is added by the pick.                                   *)
C10_PickClearsThenToggles ==
  [][/\ PickStep => selectedNodes' = <<>>
     /\ TimeoutStep => selectedNodes' = ToggleSel(selectedNodes, Head(timers).ids[1])]_vars

(* A deferred toggle that acted on a selection made after the clear *)
C10_Witness ==
  /\ Loaded /\ hist # <<>>
  /\ LastToggle.via = "discovery" /\ LastToggle.on
  /\ LastToggle.sel # <<>>
  /\ Len(selectedNodes) = 2

(* The other end of edge e, seen from its end n *)
OtherEnd(e, n) == IF e.source = n THEN e.target ELSE e.source

IncidentEdges(n) == {e \in graphEdges : n \in {e.source, e.target}}

ScenarioC ==
  /\ Loaded
  /\ DOMAIN graphNodes = {"X", "Y", "Z"}
  /\ graphEdges = { [source |-> "X", target |-> "Y", weight |-> 4],
                    [source |-> "X", target |-> "Z", weight |-> 1] }
  /\ minScore = 1 /\ minStrength = 0
  /\ selectedGenres = {} /\ ~isAwardWinningOnly
  /\ selectedNodes = <<"X", "Z">>

(* C22: in Scenario C the candidate sets are {Y, Z} for X and {X} for Z,   *)
(* their intersection is empty and the Active Set is {X, Z}.               *)
C22_ScenarioC ==
  ScenarioC =>
    /\ QualifyingNeighbors(graphNodes, graphEdges, FilterState, "X") = {"Y", "Z"}
    /\ QualifyingNeighbors(graphNodes, graphEdges, FilterState, "Z") = {"X"}
    /\ IntersectFrom(graphNodes, graphEdges, FilterState, selectedNodes, 2,
                     QualifyingNeighbors(graphNodes, graphEdges, FilterState, "X")) = {}
    /\ visibleNodeIds = {"X", "Z"}

(* Scenario C reached by toggling Z on while X was the only selected id *)
C22_Witness ==
  /\ ScenarioC
  /\ hist # <<>> /\ LastToggle.id = "Z" /\ LastToggle.on /\ LastToggle.sel = <<"X">>
  /\ "Y" \in LastToggle.vis

(* C24: in award-only mode the Active Set is the one the resolver gives    *)
(* for every other value of selectedGenres, with the same Selection Set,   *)
(* minScore and minStrength.                                               *)
C24_AwardIgnoresGenres ==
  (Loaded /\ isAwardWinningOnly) =>
    \A G \in SUBSET allGenres :
      visibleNodeIds =
        ActiveNodes(graphNodes, graphEdges,
                    [FilterState EXCEPT !.selectedGenres = G], selectedNodes)

(* Award-only mode with a genre chosen that a visible node does not carry, *)
(* the node not being selected                                             *)
C24_Witness ==
  /\ Loaded /\ isAwardWinningOnly /\ selectedGenres # {}
  /\ \E n \in visibleNodeIds \ Range(selectedNodes) :
       Range(graphNodes[n].genres) \cap selectedGenres = {}

(* A step that changes the Selection Set or the Filter State *)
ResolverStep == Loaded /\ (selVars' # selVars \/ filterVars' # filterVars)

(* C25: a change of the Selection Set or of the Filter State leaves the    *)
(* Graph Store's nodes, edges, positions and pinned flags as they were,    *)
(* and the node reducer installed after it hides exactly the nodes outside *)
(* the Active Set.                                                         *)
C25_ResolverOnlyHides ==
  [][ResolverStep =>
       /\ UNCHANGED <<graphNodes, graphEdges, pos, fixed>>
       /\ reducerEnv' # <<>>
       /\ \A n \in DOMAIN graphNodes :
            nodeReducer(reducerEnv'[1], n).hidden <=> n \notin visibleNodeIds']_vars

(* A pinned node, dragged off the layout's placements, that a later        *)
(* resolver pass has hidden and that is still a node of the Graph Store    *)
C25_Witness ==
  /\ Loaded
  /\ \E n \in fixed \cap DOMAIN graphNodes :
       /\ n \notin visibleNodeIds
       /\ nodeReducer(reducerEnv[1], n).hidden
       /\ pos[n] \notin LayoutPlacements

(* Steps of the selection operations (toggle, clearSelection, discovery    *)
(* pick and its deferred toggle) and of the setFilter operations           *)
SelectionStep == selVars' # selVars \/ timers' # timers

FilterStep == filterVars' # filterVars

(* C23: a selection operation leaves minStrength, minScore, selectedGenres *)
(* and awardWinningOnly unchanged, and a setFilter operation leaves the    *)
(* Selection Set unchanged.                                                *)
C23_FilterSelectionIndependent ==
  [][/\ SelectionStep => UNCHANGED filterVars
     /\ FilterStep => UNCHANGED selectedNodes]_vars

(* Every filter moved off its initial value, and a non-empty selection     *)
(* whose latest change is the deferred toggle of a discovery pick          *)
C23_Witness ==
  /\ Loaded
  /\ minStrength # INITIAL_MIN_STRENGTH /\ minScore # INITIAL_DISPLAY_SCORE
  /\ selectedGenres # {} /\ isAwardWinningOnly
  /\ hist # <<>> /\ LastToggle.via = "discovery"
  /\ Len(selectedNodes) = 2

----------------------------------------------------------------------------
(* Claims on the Interaction Controller (SpecGesture, SpecRemoval) *)

(* C2: once the pointer is released after a drag, whatever re-renders      *)
(* interleave, no node remains pinned and no gesture record remains.       *)
C2_ReleasedMeansIdle ==
  ~buttonDown => (fixed = {} /\ dragInfoRef = <<>>)

(* C5: if the node of the gesture is removed from the Graph Store, the     *)
(* pointer-move and pointer-up handlers raise no error.                    *)
C5_RemovedNodeTolerated == ~thrown

(* The current press is on a node and not yet released *)
GestureOpen ==
  /\ buttonDown
  /\ gestureLog # <<>> /\ gestureLog[1].node # <<>>
  /\ dragInfoRef # <<>>

ReleaseStep == buttonDown /\ ~buttonDown'

MoveStep == buttonDown' = buttonDown /\ pointer' # pointer

(* C14: Scenario E: a gesture on a node whose displacement never exceeds   *)
(* the threshold resolves at pointer-up as a click: the node is toggled in *)
(* the Selection Set, one camera focus on it is commanded and the          *)
(* controller returns to Idle.                                             *)
C14_ClickToggles ==
  [][(GestureOpen /\ ~gestureLog[1].exceeded /\ ReleaseStep) =>
       /\ selectedNodes' = ToggleSel(selectedNodes, dragInfoRef[1].nodeId)
       /\ focusLog' = <<dragInfoRef[1].nodeId>>
       /\ dragInfoRef' = <<>>]_vars

(* C15: a gesture that has entered Dragging never toggles selection: the   *)
(* Selection Set after its pointer-up equals the Selection Set before its  *)
(* pointer-down.                                                           *)
C15_DragNeverToggles ==
  [][(GestureOpen /\ Dragging /\ ReleaseStep) =>
       selectedNodes' = gestureLog[1].sel]_vars

(* C15 witness: a drag was released back at its start point and the        *)
(* release was handled                                                     *)
C15_Witness ==
  /\ gestureLog # <<>> /\ gestureLog[1].released /\ gestureLog[1].dragged
  /\ gestureLog[1].exceeded
  /\ pointer \in PressPoints
  /\ dragInfoRef = <<>>
  /\ selectedNodes # <<>>

(* C16: while armed on a node, a pointer-move at most 5 pixels from the    *)
(* start leaves the node unpinned and unmoved; the first move beyond 5     *)
(* pixels and every later move of the gesture pins the node (Dragging) and *)
(* sets its position to the graph-space projection of the pointer.         *)
C16_ThresholdThenFollow ==
  [][(GestureOpen /\ MoveStep) =>
       LET d == dragInfoRef[1] IN
         IF ~gestureLog[1].exceeded /\ ~BeyondThreshold(d.startX, d.startY, pointer')
           THEN fixed' = fixed /\ pos' = pos
           ELSE /\ d.nodeId \in fixed'
                /\ Dragging'
                /\ pos'[d.nodeId] = ViewportToGraph(pointer')]_vars

(* C17: a layout tick never changes the position of a pinned node, and     *)
(* during a drag the dragged node stays where the most recent pointer-move *)
(* wrote it, whatever ticks interleave.                                    *)
C17_PinnedKeepsPosition ==
  [][/\ pointer' = pointer =>
          \A n \in fixed \cap DOMAIN pos' : pos'[n] = pos[n]
     /\ (GestureOpen' /\ Dragging' /\ gestureLog'[1].lastWrite # <<>>) =>
          pos'[dragInfoRef'[1].nodeId] = gestureLog'[1].lastWrite[1]]_vars

(* C17 witness: a layout tick ran during a drag and moved the other node,  *)
(* the dragged node is where the pointer-move wrote it                     *)
C17_Witness ==
  /\ GestureOpen /\ Dragging
  /\ gestureLog[1].ticked
  /\ gestureLog[1].lastWrite = <<pos[dragInfoRef[1].nodeId]>>
  /\ pos[dragInfoRef[1].nodeId] \notin LayoutPlacements
  /\ \E m \in DOMAIN pos \ {dragInfoRef[1].nodeId} : pos[m] # Origin

(* C18: a pointer-up or pointer-move that arrives while no gesture is      *)
(* recorded changes nothing: Selection Set, pinned flags, positions,       *)
(* cursor and gesture state stay, and no camera focus is commanded.        *)
C18_IdleEventsNoOp ==
  [][(dragInfoRef = <<>> /\ (ReleaseStep \/ MoveStep)) =>
       /\ UNCHANGED <<selectedNodes, fixed, pos, cursor, dragInfoRef>>
       /\ focusLog' = <<>>]_vars

(* C18 witness: a press on the stage, moved and released with no gesture   *)
(* recorded, while the pointer hovers a node                               *)
C18_Witness ==
  /\ gestureLog # <<>> /\ gestureLog[1].node = <<>> /\ gestureLog[1].released
  /\ dragInfoRef = <<>>
  /\ pointer \notin PressPoints
  /\ cursor = "grab"

(* C26: while the controller is Dragging no tooltip is shown, whatever     *)
(* pointer-enter and pointer-leave events interleave with the drag.        *)
C26_NoTooltipWhileDragging == Dragging => tooltip = <<>>

(* A drag in progress during which the pointer has entered another node *)
C26_Witness ==
  /\ Dragging /\ buttonDown
  /\ hoveredNode # <<>> /\ hoveredNode[1] # dragInfoRef[1].nodeId
  /\ hoveredNode[1] \in visibleNodeIds

----------------------------------------------------------------------------
(* Claims on the Layout Engine loop (SpecLayout) *)

(* A step of the layout loop: the requested frame ran *)
FrameStep == frameId # <<>> /\ frameId' # frameId

(* C28: while the view is mounted every animation frame runs one layout    *)
(* tick (the unpinned nodes are placed by the layout, the pinned ones stay)*)
(* and requests the next frame; with at least one node in the graph a      *)
(* further frame always eventually runs unless the view is unmounted; and  *)
(* after unmount no frame is requested and no position changes.            *)
C28_LayoutLoop ==
  /\ [][(FrameStep /\ Loaded') =>
          /\ frameId' # <<>>
          /\ \A n \in DOMAIN graphNodes :
               IF n \in fixed THEN pos'[n] = pos[n] ELSE pos'[n] \in LayoutPlacements]_vars
  /\ \A f \in LayoutFrames :
       [](((Loaded /\ DOMAIN graphNodes # {} /\ frameId = <<f>>))
            => <>(frameId # <<f>>))
  /\ [](phase = "unmounted" => frameId = <<>>)
  /\ [][phase = "unmounted" => (pos' = pos /\ frameId' = frameId)]_vars

(* The loop has run a frame after the first on a graph of three nodes and  *)
(* has requested the next one                                              *)
C28_Witness ==
  /\ Loaded /\ frameId = <<1>>
  /\ Cardinality(DOMAIN graphNodes) = 3
  /\ \E n \in DOMAIN graphNodes : pos[n] # Origin

(* The view unmounted after the loop had run on a graph with nodes *)
C28_WitnessUnmounted ==
  /\ phase = "unmounted" /\ DOMAIN graphNodes # {}
  /\ \E n \in DOMAIN graphNodes : pos[n] # Origin

----------------------------------------------------------------------------
(* Claims on the dataset fetch (SpecFetch) *)

(* C29: after a failed fetch (rejected, non-OK response, unparsable body)  *)
(* the engine stays in the empty state: no data, no node and no edge in    *)
(* the Graph Store, an empty Active Set, no layout frame requested, no     *)
(* position, and no error raised.                                          *)
C29_FetchFailureEmpty ==
  /\ [](phase = "empty" =>
         /\ data = <<>> /\ nodeList = <<>>
         /\ graphNodes = EmptyFn /\ graphEdges = {}
         /\ visibleNodeIds = {} /\ reducerEnv = <<>>
         /\ pos = EmptyFn /\ frameId = <<>>
         /\ ~thrown)
  /\ [][phase = "empty" => phase' = "empty"]_vars

(* The empty state after the controls were used: both sliders moved, the   *)
(* award switch on, the discovery modal open                               *)
C29_Witness ==
  /\ phase = "empty"
  /\ minStrength # INITIAL_MIN_STRENGTH /\ minScore # INITIAL_DISPLAY_SCORE
  /\ isAwardWinningOnly /\ isDiscoveryOpen

(* lo <= r <= hi *)
RatioWithin(r, lo, hi) == ~IsNaN(r) /\ ~Less(r, lo) /\ ~Less(hi, r)

(* what the claim requires of one handleFit call *)
FitCallClamped(call) ==
  IF visibleNodeIds \cap DOMAIN graphNodes = {}
    THEN call.animations = <<>>
    ELSE /\ Len(call.animations) = 1
         /\ RatioWithin(call.animations[1].ratio, FIT_MIN_RATIO, FIT_MAX_RATIO)
         /\ RatioWithin(call.animations[1].ratio, minCameraRatio, maxCameraRatio)

(* C30: fitToActive commands no camera animation when zero nodes are       *)
(* visible; otherwise it commands exactly one animation whose zoom ratio   *)
(* lies within [0.1, 3.0], inside the camera's [minCameraRatio,            *)
(* maxCameraRatio] range, also when a single node is visible.              *)
C30_FitRatioClamped == fitLog # <<>> => FitCallClamped(fitLog[1])

(* C30 for a container with a positive width and height *)
C30_FitRatioClampedPositive ==
  (fitLog # <<>> /\ fitLog[1].dims[1] > 0 /\ fitLog[1].dims[2] > 0)
    => FitCallClamped(fitLog[1])

(* C30 witnesses: a fit with one visible node; a fit whose ratio lies      *)
(* strictly between the two clamps; a fit with nothing visible             *)
C30_WitnessSingle ==
  /\ fitLog # <<>>
  /\ Cardinality(fitLog[1].displayed) = 1
  /\ fitLog[1].dims[2] > 0
  /\ fitLog[1].animations # <<>>
  /\ fitLog[1].animations[1].ratio = FIT_MIN_RATIO

C30_WitnessInside ==
  /\ fitLog # <<>>
  /\ fitLog[1].animations # <<>>
  /\ Less(FIT_MIN_RATIO, fitLog[1].animations[1].ratio)
  /\ Less(fitLog[1].animations[1].ratio, FIT_MAX_RATIO)

C30_WitnessUpper ==
  /\ fitLog # <<>>
  /\ fitLog[1].animations # <<>>
  /\ fitLog[1].animations[1].ratio = FIT_MAX_RATIO

C30_WitnessNone ==
  /\ fitLog # <<>>
  /\ DOMAIN graphNodes # {}
  /\ fitLog[1].displayed = {}

(* C30: the fit that leaves the range: one visible node (or visible nodes  *)
(* on one horizontal line) in a container of height 0                      *)
C30_WitnessNaN ==
  /\ fitLog # <<>>
  /\ fitLog[1].dims = <<100, 0>>
  /\ fitLog[1].animations # <<>>
  /\ IsNaN(fitLog[1].animations[1].ratio)

----------------------------------------------------------------------------
(* C31: every id that toggle can add to the Selection Set is a node of the *)
(* Graph Store: a node dropped at load time as isolated cannot be selected *)
(* through the search list, the discovery list or any other shell path.    *)
C31_SelectedInGraphStore ==
  Loaded => Range(selectedNodes) \subseteq DOMAIN graphNodes

(* C31: an entry of nodeList that GraphLoader dropped as isolated is in    *)
(* the Selection Set                                                       *)
C31_WitnessDropped ==
  /\ Loaded
  /\ \E id \in Range(selectedNodes) : id \in NodeListIds \ DOMAIN graphNodes

(* the orders in which the ids of a selection can have been inserted *)
InsertionOrders(sel) == { t \in [DOMAIN sel -> Range(sel)] : Range(t) = Range(sel) }

(* C32: the Active Set depends only on which ids are selected, not on the  *)
(* order in which they were selected: every insertion order of the         *)
(* Selection Set gives the Active Set of the current one under the same    *)
(* Filter State (so deselecting a selected node and selecting it again,    *)
(* which moves it to the end, restores the Active Set).                    *)
C32_OrderIndependent ==
  Loaded =>
    \A t \in InsertionOrders(selectedNodes) :
      ActiveNodes(graphNodes, graphEdges, FilterState, t) = visibleNodeIds

(* C32 for Selection Sets whose ids are all nodes of the Graph Store *)
C32_OrderIndependentInStore ==
  (Loaded /\ Range(selectedNodes) \subseteq DOMAIN graphNodes) =>
    \A t \in InsertionOrders(selectedNodes) :
      ActiveNodes(graphNodes, graphEdges, FilterState, t) = visibleNodeIds

(* C32: two insertion orders of one Selection Set with different Active    *)
(* Sets: a node dropped at load time selected first hides everything,      *)
(* selected second it does not.                                            *)
C32_WitnessOrderMatters ==
  /\ Loaded
  /\ Len(selectedNodes) = 2
  /\ selectedNodes[1] \notin DOMAIN graphNodes
  /\ selectedNodes[2] \in DOMAIN graphNodes
  /\ visibleNodeIds = {}
  /\ ActiveNodes(graphNodes, graphEdges, FilterState,
                 <<selectedNodes[2], selectedNodes[1]>>) # {}

(* C32: two selected nodes of the Graph Store with a common neighbor *)
C32_WitnessInStore ==
  /\ Loaded
  /\ Len(selectedNodes) = 2
  /\ Range(selectedNodes) \subseteq DOMAIN graphNodes
  /\ visibleNodeIds # Range(selectedNodes)

----------------------------------------------------------------------------
(* C33: once a discovery pick of node n has completed (the immediate       *)
(* clearSelection and the toggle of n deferred by 50 ms), the Selection    *)
(* Set is exactly {n}, for every interleaving of other toggle or clear     *)
(* events between the clear and the deferred toggle.                       *)
C33_PickSelectsOnlyPicked ==
  [][TimeoutStep => selectedNodes' = <<Head(timers).ids[1]>>]_vars

(* C33 when no toggle comes between the clear and the deferred toggle *)
C33_PickUninterrupted ==
  [][(TimeoutStep /\ selectedNodes = <<>>) =>
       selectedNodes' = <<Head(timers).ids[1]>>]_vars

(* C33: the deferred toggle found the picked node selected again and       *)
(* removed it: the pick has completed with an empty Selection Set          *)
C33_WitnessPickedRemoved ==
  /\ Loaded /\ hist # <<>>
  /\ LastToggle.via = "discovery" /\ ~LastToggle.on
  /\ timers = <<>>
  /\ selectedNodes = <<>>

(* C33: the deferred toggle added the picked node to a node selected       *)
(* after the clear                                                         *)
C33_WitnessOtherKept ==
  /\ Loaded /\ hist # <<>>
  /\ LastToggle.via = "discovery" /\ LastToggle.on
  /\ timers = <<>>
  /\ \E m \in Range(selectedNodes) : m # LastToggle.id

----------------------------------------------------------------------------
(* C34: in every reachable state the node shown in the detail panel        *)
(* (lastSelectedNode), when set, is a member of the Selection Set, after   *)
(* any sequence of toggle and clear calls, including a toggle issued       *)
(* through a handler captured before an earlier state change (the deferred *)
(* discovery toggle).                                                      *)
C34_LastSelectedIsSelected ==
  lastSelectedNode # <<>> => lastSelectedNode[1] \in Range(selectedNodes)

(* C34: the deferred discovery toggle has removed the node of the detail   *)
(* panel from the Selection Set and left the panel on it                   *)
C34_WitnessStalePanel ==
  /\ Loaded /\ hist # <<>>
  /\ LastToggle.via = "discovery" /\ ~LastToggle.on
  /\ lastSelectedNode = <<LastToggle.id>>
  /\ LastToggle.id \notin Range(selectedNodes)

----------------------------------------------------------------------------
(* C35: for every Selection Set and Filter State, every node of the Active *)
(* Set that is not itself selected is filter-valid under the current       *)
(* filters and is an endpoint of at least one edge with strength >=        *)
(* minStrength.                                                            *)
C35_UnselectedActiveIsValid ==
  Loaded =>
    \A n \in visibleNodeIds \ Range(selectedNodes) :
      /\ FilterValid(n)
      /\ \E e \in IncidentEdges(n) : e.weight >= minStrength

(* C35 witness: with a node selected, an unselected neighbor is in the     *)
(* Active Set while another neighbor of the selected node is kept out by   *)
(* the filters or by the strength of its edge                              *)
C35_Witness ==
  /\ Loaded /\ selectedNodes # <<>>
  /\ visibleNodeIds \ Range(selectedNodes) # {}
  /\ \E s \in Range(selectedNodes) : \E e \in IncidentEdges(s) :
       /\ OtherEnd(e, s) \notin visibleNodeIds
       /\ ~FilterValid(OtherEnd(e, s)) \/ e.weight < minStrength

(* C35 witness: nothing selected, some node in the Active Set and some     *)
(* node of the Graph Store outside it                                      *)
C35_WitnessEmptySelection ==
  /\ Loaded /\ selectedNodes = <<>>
  /\ visibleNodeIds # {}
  /\ DOMAIN graphNodes \ visibleNodeIds # {}

----------------------------------------------------------------------------
(* Claims on the node sizes (SpecLoad) *)

(* the fraction p equals the fraction q; neither is a division by zero *)
FracEq(p, q) == p[2] > 0 /\ q[2] > 0 /\ p[1] * q[2] = q[1] * p[2]

(* lo <= p <= hi for a fraction p and integers lo, hi *)
FracBetween(p, lo, hi) == p[2] > 0 /\ lo * p[2] <= p[1] /\ p[1] <= hi * p[2]

StoreDegrees == {degree(graphEdges, n) : n \in DOMAIN graphNodes}

(* C36: after load of a non-empty graph, every node's importance equals    *)
(* (degree - minDegree) / (maxDegree - minDegree) and lies in [0, 1], with *)
(* 0 for a minimum-degree node and 1 for a maximum-degree node when the    *)
(* two degrees differ; when all degrees are equal every importance is 0;   *)
(* the rendered size equals 3 + 12 * importance and lies in [3, 15].       *)
C36_ImportanceAndSize ==
  (Loaded /\ DOMAIN graphNodes # {}) =>
    LET minDegree == SetMin(StoreDegrees)
        maxDegree == SetMax(StoreDegrees)
    IN \A n \in DOMAIN graphNodes :
         LET d == degree(graphEdges, n)
             importance == nodeSize[n].importance
             size == nodeSize[n].size
         IN /\ IF maxDegree = minDegree
                 THEN FracEq(importance, <<0, 1>>)
                 ELSE FracEq(importance, <<d - minDegree, maxDegree - minDegree>>)
            /\ FracBetween(importance, 0, 1)
            /\ d = minDegree => FracEq(importance, <<0, 1>>)
            /\ (d = maxDegree /\ maxDegree # minDegree) => FracEq(importance, <<1, 1>>)
            /\ FracEq(size, <<3 * importance[2] + 12 * importance[1], importance[2]>>)
            /\ FracBetween(size, 3, 15)

(* C36 witness: a loaded graph with a node of minimum degree, one of       *)
(* maximum degree and one in between                                       *)
C36_Witness ==
  /\ Loaded
  /\ \E a, b, c \in DOMAIN graphNodes :
       /\ FracEq(nodeSize[a].importance, <<0, 1>>) /\ FracEq(nodeSize[a].size, <<3, 1>>)
       /\ FracEq(nodeSize[b].importance, <<1, 2>>) /\ FracEq(nodeSize[b].size, <<9, 1>>)
       /\ FracEq(nodeSize[c].importance, <<1, 1>>) /\ FracEq(nodeSize[c].size, <<15, 1>>)

(* C36 witness: a loaded graph all of whose nodes have the same degree *)
C36_WitnessEqualDegrees ==
  /\ Loaded
  /\ Cardinality(DOMAIN graphNodes) >= 2
  /\ Cardinality(StoreDegrees) = 1
  /\ \A n \in DOMAIN graphNodes : FracEq(nodeSize[n].size, <<3, 1>>)

====
